---- MODULE Spec2Model ----
(***************************************************************************)
(* Model of photo_video_renamer.py: the batch orchestrator                 *)
(* process_directory, the per-file relocation copy_and_rename_file and the *)
(* filesystem they act on.  A behaviour is a sequence of runs of           *)
(* process_directory over one filesystem, with the same input directory,   *)
(* output directory, mode and cutoff, each run live or dry.                *)
(***************************************************************************)
EXTENDS Integers, Sequences, FiniteSets, TLC

\* ------------------------------------------------------------ bounds
NFiles == 3        \* paths of the input tree that may hold a source file
MaxRuns == 2       \* runs of process_directory in one behaviour of SpecRerun
MaxFaults == 1     \* I/O operations the environment lets fail in one behaviour

\* ------------------------------------------------------------ file contents
\* What a file holds: whether its metadata resolves, the timestamp the resolver
\* returns for it (embedded tag or mtime, both kept by copy2 and move), its pixel
\* size, the hexdigest of the MD5 of its bytes (32 lowercase hexadecimal
\* characters, kept as a sequence of characters), and the rest of its bytes (body).
Jpg == ".jpg"
HexDigest(c) == [k \in 1..32 |-> c]
PhotoA == [ok |-> TRUE, date |-> <<2023, 5, 20>>, width |-> 640, height |-> 480,
           hash |-> HexDigest("a"), body |-> 1]
PhotoB == [ok |-> TRUE, date |-> <<2023, 7, 4>>, width |-> 640, height |-> 480,
           hash |-> HexDigest("b"), body |-> 1]
PhotoC == [ok |-> TRUE, date |-> <<2024, 1, 1>>, width |-> 640, height |-> 480,
           hash |-> HexDigest("c"), body |-> 1]
Junk == [ok |-> FALSE, date |-> <<0, 0, 0>>, width |-> 0, height |-> 0,
         hash |-> HexDigest("d"), body |-> 1]
ContentList == <<PhotoA, PhotoB, PhotoC, Junk>>

NoDate == <<0, 0, 0>>            \* None in place of a date
NoPath == <<>>                   \* no destination was computed
InputDir == "in"
OtherDir == "out"

\* ------------------------------------------------------------ cutoff strings
\* A cutoff string is kept as the list of its '/'-separated parts; a part is a
\* decimal integer, a non-numeric word, or empty.
IntTok(n) == [kind |-> "int", val |-> n]
WordTok == [kind |-> "word", val |-> 0]
EmptyTok == [kind |-> "empty", val |-> 0]
NoCutoff == [given |-> FALSE, parts |-> <<>>]
Str(parts) == [given |-> TRUE, parts |-> parts]
Cutoffs == { NoCutoff,
             Str(<<IntTok(2023), IntTok(7)>>),             \* "2023/07"
             Str(<<IntTok(2024), IntTok(1)>>),             \* "2024/01"
             Str(<<IntTok(2023), IntTok(13)>>),            \* "2023/13"
             Str(<<IntTok(2023)>>),                        \* "2023"
             Str(<<IntTok(2023), WordTok>>) }              \* "2023/June"

\* ------------------------------------------------------------ state
VARIABLES
  fs,                         \* path -> content, for every regular file
  dirs,                       \* the directories that exist
  output_directory, in_place, start_year_month,   \* arguments, the same in every run
  runs,                       \* one record per run started; the last is the current run
  pc,
  media_files_with_metadata,
  media_files,
  success_count, total_count,
  faults,                     \* I/O failures so far
  probe                       \* one call of a helper on its own: its input and result

vars == <<fs, dirs, output_directory, in_place, start_year_month, runs, pc,
          media_files_with_metadata, media_files, success_count, total_count, faults,
          probe>>

\* No helper is examined on its own: the runs of process_directory.
NoProbe == [fn |-> "none"]

cur == runs[Len(runs)]
dry_run == cur.dry

\* ------------------------------------------------------------ paths and dates
SrcPath(i) == <<InputDir, i>>
Exists(fsys, ds, p) == p \in DOMAIN fsys \/ p \in ds

DateLess(a, b) ==
  \/ a[1] < b[1]
  \/ a[1] = b[1] /\ a[2] < b[2]
  \/ a[1] = b[1] /\ a[2] = b[2] /\ a[3] < b[3]
DateLE(a, b) == a = b \/ DateLess(a, b)

MonthNames == <<"January", "February", "March", "April", "May", "June", "July",
                "August", "September", "October", "November", "December">>

\* ------------------------------------------------------------ metadata and hash
NoMeta == [date |-> NoDate, width |-> 0, height |-> 0]

\* get_file_metadata: (date_taken, width, height) of the file at the path, or the
\* all-None triple when the file cannot be opened or decoded.
get_file_metadata(fsys, file_path) ==
  IF file_path \in DOMAIN fsys /\ fsys[file_path].ok
  THEN [date |-> fsys[file_path].date, width |-> fsys[file_path].width,
        height |-> fsys[file_path].height]
  ELSE NoMeta

HashSentinel == <<"0", "0", "0", "0", "0", "0", "0", "0">>
HashLength == 8

\* The whole hexdigest returned (the [:length] of line 151 lost).
generate_hash_unsliced(fsys, file_path, readable) ==
  IF readable /\ file_path \in DOMAIN fsys THEN fsys[file_path].hash ELSE HashSentinel

\* generate_hash: the first length characters of the hexdigest, or the sentinel
\* when opening or reading the file fails.
generate_hash(fsys, file_path, readable) ==
  IF readable /\ file_path \in DOMAIN fsys
  THEN SubSeq(fsys[file_path].hash, 1, HashLength)
  ELSE HashSentinel

\* os.path.splitext(filename)[1].lower(): every path of this model ends in .jpg
FileExt(file_path) == Jpg

\* ------------------------------------------------------------ destination naming
StructuredDir(output_dir, date_taken) ==
  <<output_dir, date_taken[1], MonthNames[date_taken[2]]>>

NewFilename(meta, file_hash, file_ext) ==
  <<meta.date, meta.width, meta.height, file_hash, file_ext>>

NewPath(output_dir, meta, file_hash, file_ext) ==
  Append(StructuredDir(output_dir, meta.date), NewFilename(meta, file_hash, file_ext))

\* The name used as computed (the loop of lines 198-201 lost).
FreePath_unchecked(fsys, ds, original, counter) == original

\* The counter loop: the first of original, original_001, original_002, ... that
\* does not exist.  counter = 0 stands for the name without a suffix.
RECURSIVE FreePath(_, _, _, _)
FreePath(fsys, ds, original, counter) ==
  LET candidate == IF counter = 0 THEN original ELSE Append(original, counter)
  IN IF Exists(fsys, ds, candidate) /\ counter <= NFiles + 1
     THEN FreePath(fsys, ds, original, counter + 1)
     ELSE candidate

\* os.makedirs(path, exist_ok=True): the path and every prefix of it.
Makedirs(ds, path) == ds \cup {SubSeq(path, 1, k) : k \in 1..Len(path)}

\* ------------------------------------------------------------ copy_and_rename_file
\* io names the I/O operation the environment lets fail during this call, "none"
\* for none.  The result holds the filesystem after the call, the value returned
\* (ret), whether an exception left the function (raised), what was decided for
\* the file (entry) and whether the failing operation was reached (faulted).
IOChoices == {"none", "hash", "mkdir", "xfer"}

Entry(file_path, dest, decision, ok) ==
  [file |-> file_path, dest |-> dest, decision |-> decision, ok |-> ok]

Result(fsys, ds, ret, raised, entry, faulted) ==
  [fs |-> fsys, dirs |-> ds, ret |-> ret, raised |-> raised, entry |-> entry,
   faulted |-> faulted]

\* shutil.copy2 in both modes (the in_place test of line 212 lost).
Moves_never(inpl) == FALSE

\* Line 212: shutil.move in in-place mode, shutil.copy2 otherwise.
Moves(inpl) == inpl

\* Lines 208-222: create the year/month directory, then copy or move.
Transfer(fsys, ds, file_path, structured_dir, new_path, inpl, io, hashFault) ==
  LET operation == IF inpl THEN "move" ELSE "copy"
      mkFault == io = "mkdir" /\ structured_dir \notin ds
      ds1 == Makedirs(ds, structured_dir)
      written == [p \in DOMAIN fsys \cup {new_path} |->
                    IF p = new_path THEN fsys[file_path] ELSE fsys[p]]
      moved == [p \in (DOMAIN fsys \cup {new_path}) \ {file_path} |->
                    IF p = new_path THEN fsys[file_path] ELSE fsys[p]]
  IN IF mkFault
     THEN Result(fsys, ds, FALSE, TRUE,
                 Entry(file_path, new_path, operation, FALSE), TRUE)
     ELSE IF io = "xfer"
     THEN Result(fsys, ds1, FALSE, FALSE,
                 Entry(file_path, new_path, operation, FALSE), TRUE)
     ELSE Result(IF Moves(inpl) THEN moved ELSE written, ds1, TRUE, FALSE,
                 Entry(file_path, new_path, operation, TRUE), hashFault)

\* The early return of lines 187-193 lost: an existing name goes to the counter loop.
AlreadyExists_never(fsys, ds, new_path) == FALSE

\* Line 187: something exists at the computed path.
AlreadyExists(fsys, ds, new_path) == Exists(fsys, ds, new_path)

\* copy_and_rename_file, with the files and directories at the exists test of
\* line 187 (fsys, ds) told apart from those at the loop of line 198 and after
\* (fsLater, dsLater): the two differ when another process writes in between.
RelocateAt(fsys, ds, fsLater, dsLater, file_path, output_dir, dry, inpl, io) ==
  LET meta == get_file_metadata(fsys, file_path)
      hashFault == io = "hash"
      file_hash == generate_hash(fsys, file_path, ~hashFault)
      structured_dir == StructuredDir(output_dir, meta.date)
      original_new_path == NewPath(output_dir, meta, file_hash, FileExt(file_path))
      new_path == FreePath(fsLater, dsLater, original_new_path, 0)
      operation == IF inpl THEN "move" ELSE "copy"
  IN IF meta = NoMeta
     THEN Result(fsys, ds, FALSE, FALSE, Entry(file_path, NoPath, "nometa", FALSE), FALSE)
     ELSE IF AlreadyExists(fsys, ds, original_new_path)
     THEN Result(fsys, ds, TRUE, FALSE,
                 Entry(file_path, original_new_path, "skip", TRUE), hashFault)
     ELSE IF dry
     THEN Result(fsLater, dsLater, TRUE, FALSE,
                 Entry(file_path, new_path, operation, TRUE), hashFault)
     ELSE Transfer(fsLater, dsLater, file_path, structured_dir, new_path, inpl, io,
                   hashFault)

\* copy_and_rename_file while nothing else writes to the tree.
copy_and_rename_file(fsys, ds, file_path, output_dir, dry, inpl, io) ==
  RelocateAt(fsys, ds, fsys, ds, file_path, output_dir, dry, inpl, io)

\* ------------------------------------------------------------ scanning, sorting, filtering
\* find_media_files_recursively: the regular files below the directory.
find_media_files_recursively(fsys, directory_path) ==
  {p \in DOMAIN fsys : p[1] = directory_path}

\* list.sort(key=lambda x: x[1]): stable, ascending by date_taken.
RECURSIVE InsertByDate(_, _)
InsertByDate(sorted, x) ==
  IF sorted = <<>> THEN <<x>>
  ELSE IF DateLess(x[2], sorted[Len(sorted)][2])
       THEN Append(InsertByDate(SubSeq(sorted, 1, Len(sorted) - 1), x), sorted[Len(sorted)])
       ELSE Append(sorted, x)

\* The list left as the scanner produced it (the sort forgotten).
SortByDate_unsorted(list) == list

RECURSIVE SortByDate(_)
SortByDate(list) ==
  IF list = <<>> THEN <<>>
  ELSE InsertByDate(SortByDate(SubSeq(list, 1, Len(list) - 1)), list[Len(list)])

\* `if start_year_month:` - None and the empty string are both false.
Truthy(s) == s.given /\ s.parts # <<EmptyTok>>

\* map(int, s.split('/')) unpacked into two names: ValueError unless there are
\* exactly two parts and both are integers.
ParseCutoff(s) ==
  IF Len(s.parts) = 2 /\ \A k \in 1..2 : s.parts[k].kind = "int"
  THEN [ok |-> TRUE, start_year |-> s.parts[1].val, start_month |-> s.parts[2].val]
  ELSE [ok |-> FALSE, start_year |-> 0, start_month |-> 0]

\* The month compared with > where the code has >=.
FromCutoff_strict(date_taken, start_year, start_month) ==
  date_taken[1] > start_year \/ (date_taken[1] = start_year /\ date_taken[2] > start_month)

\* Line 268.
FromCutoff(date_taken, start_year, start_month) ==
  date_taken[1] > start_year \/ (date_taken[1] = start_year /\ date_taken[2] >= start_month)

RECURSIVE FilterFrom(_, _, _)
FilterFrom(list, start_year, start_month) ==
  IF list = <<>> THEN <<>>
  ELSE LET rest == FilterFrom(Tail(list), start_year, start_month)
       IN IF FromCutoff(Head(list)[2], start_year, start_month)
          THEN <<Head(list)[1]>> \o rest
          ELSE rest

Paths(list) == [k \in 1..Len(list) |-> list[k][1]]

\* ------------------------------------------------------------ initial filesystems
MetaOf(c) == [date |-> c.date, width |-> c.width, height |-> c.height]
DestOf(output_dir, c) ==
  NewPath(output_dir, MetaOf(c), SubSeq(c.hash, 1, HashLength), Jpg)
Parent(p) == SubSeq(p, 1, Len(p) - 1)

\* Which content each source path holds, 0 for no file.  Source paths are names
\* only, so one tree stands for all its permutations.
SourceTrees ==
  {src \in [1..NFiles -> 0..Len(ContentList)] :
     \A i \in 1..NFiles, j \in 1..NFiles : i < j => src[i] >= src[j]}

\* A file already under the output directory's 2023/May when the first run
\* starts, <<the content it is named after, the content it holds>>: an earlier
\* copy of PhotoA, or a file whose name does not match what it holds.
PreExisting == {<<>>, <<PhotoA, PhotoA>>, <<PhotoA, PhotoB>>}

InitFs(src, pre) ==
  LET srcPaths == {SrcPath(i) : i \in {k \in 1..NFiles : src[k] # 0}}
      prePaths == IF pre = <<>> THEN {} ELSE {DestOf(output_directory, pre[1])}
  IN [p \in srcPaths \cup prePaths |->
        IF p \in prePaths THEN pre[2] ELSE ContentList[src[p[2]]]]

InitDirs(input_exists, pre, out_exists) ==
  (IF input_exists THEN {<<InputDir>>} ELSE {})
  \cup (IF out_exists THEN {<<output_directory>>} ELSE {})
  \cup (IF pre = <<>> THEN {} ELSE Makedirs({}, Parent(DestOf(output_directory, pre[1]))))

Init ==
  /\ in_place \in BOOLEAN
  /\ output_directory \in IF in_place THEN {InputDir} ELSE {OtherDir}
  /\ start_year_month \in Cutoffs
  /\ \E input_exists \in BOOLEAN, src \in SourceTrees, pre \in PreExisting,
        out_exists \in BOOLEAN :
       /\ input_exists \/ (output_directory = OtherDir /\ \A i \in 1..NFiles : src[i] = 0)
       /\ pre # <<>> => out_exists
       /\ output_directory = InputDir => out_exists = input_exists
       /\ fs = InitFs(src, pre)
       /\ dirs = InitDirs(input_exists, pre, out_exists)
  /\ runs = <<>>
  /\ pc = "idle"
  /\ media_files_with_metadata = <<>>
  /\ media_files = <<>>
  /\ success_count = 0
  /\ total_count = 0
  /\ faults = 0
  /\ probe = NoProbe

\* ------------------------------------------------------------ process_directory
\* Whether a list of (path, date_taken) pairs is ascending by date already.
InDateOrder(list) ==
  \A i, j \in 1..Len(list) : i < j => DateLE(list[i][2], list[j][2])

\* What is kept of a run: its dry_run argument, the filesystem it started from,
\* whether the scanner happened to yield the files in date order, how the run
\* ended, the decision printed for each file, and the two numbers of the summary.
NewRun(d, collected) ==
  [dry |-> d, fs0 |-> fs, dirs0 |-> dirs, inOrder |-> InDateOrder(collected),
   outcome |-> "running", log |-> <<>>, success |-> 0, total |-> 0]

\* The run ends: return (or an exception leaves process_directory).
Finish(rs, outcome) == [rs EXCEPT ![Len(rs)].outcome = outcome]

\* Every candidate taken as resolved (the test of line 250 lost).
Resolved_always(meta) == TRUE

\* Line 250: a candidate enters the list when its metadata resolved.
Resolved(meta) == meta.date # NoDate

\* Lines 248-253: the (path, date_taken) pairs of the candidates whose metadata
\* resolved, in the order the scanner yielded the candidates.
RECURSIVE CollectMetadata(_, _)
CollectMetadata(fsys, yielded) ==
  IF yielded = <<>> THEN <<>>
  ELSE LET file_path == yielded[Len(yielded)]
           meta == get_file_metadata(fsys, file_path)
           before == CollectMetadata(fsys, SubSeq(yielded, 1, Len(yielded) - 1))
       IN IF Resolved(meta) THEN Append(before, <<file_path, meta.date>>) ELSE before

\* The orders in which os.walk can yield a set of files: all of them.
ScanOrders(files) ==
  {order \in [1..Cardinality(files) -> files] :
     \A i, j \in 1..Cardinality(files) : i # j => order[i] # order[j]}

\* Lines 240-253: the call, the input directory test, and the scan of the tree
\* (the loop reads the filesystem only, and nothing else runs meanwhile).
Call(d) ==
  /\ pc = "idle"
  /\ IF <<InputDir>> \notin dirs
     THEN /\ runs' = Finish(Append(runs, NewRun(d, <<>>)), "no_input")
          /\ pc' = "idle"
          /\ media_files_with_metadata' = <<>>
     ELSE \E yielded \in ScanOrders(find_media_files_recursively(fs, InputDir)) :
            /\ runs' = Append(runs, NewRun(d, CollectMetadata(fs, yielded)))
            /\ pc' = "scanned"
            /\ media_files_with_metadata' = CollectMetadata(fs, yielded)
  /\ media_files' = <<>>
  /\ success_count' = 0
  /\ total_count' = 0
  /\ UNCHANGED <<fs, dirs, output_directory, in_place, start_year_month, faults, probe>>

\* The tool is run on the tree.
Start(d) == runs = <<>> /\ Call(d)

\* The tool is run again, live and with the same other arguments, on what the
\* run before left, once a run has ended without an I/O failure.
Restart == runs # <<>> /\ Len(runs) < MaxRuns /\ faults = 0 /\ Call(FALSE)

\* The dry_run test left out of line 280.
CreatesOutput_in_dry_run(dry, fsys, ds, output_dir) == ~Exists(fsys, ds, <<output_dir>>)

\* Line 280: the output directory is created in a live run when it is missing.
CreatesOutput(dry, fsys, ds, output_dir) == ~dry /\ ~Exists(fsys, ds, <<output_dir>>)

\* Lines 255-285: the scan is over; empty check, sort, cutoff filter, output
\* directory, counters.  mk is whether os.makedirs(output_directory) succeeds.
Prepare ==
  /\ pc = "scanned"
  /\ LET sorted == SortByDate(media_files_with_metadata)
         cutoff == ParseCutoff(start_year_month)
         filtered == IF Truthy(start_year_month)
                     THEN FilterFrom(sorted, cutoff.start_year, cutoff.start_month)
                     ELSE Paths(sorted)
     IN IF media_files_with_metadata = <<>>
        THEN /\ runs' = Finish(runs, "no_media")
             /\ pc' = "idle"
             /\ UNCHANGED <<media_files_with_metadata, media_files, dirs, faults>>
        ELSE IF Truthy(start_year_month) /\ ~cutoff.ok
        THEN /\ runs' = Finish(runs, "bad_cutoff")
             /\ pc' = "idle"
             /\ media_files_with_metadata' = sorted
             /\ UNCHANGED <<media_files, dirs, faults>>
        ELSE /\ media_files_with_metadata' = sorted
             /\ media_files' = filtered
             /\ IF CreatesOutput(dry_run, fs, dirs, output_directory)
                THEN \E mk \in BOOLEAN :
                       /\ ~mk => faults < MaxFaults
                       /\ faults' = IF mk THEN faults ELSE faults + 1
                       /\ dirs' = IF mk THEN Makedirs(dirs, <<output_directory>>) ELSE dirs
                       /\ runs' = IF mk THEN runs ELSE Finish(runs, "exception")
                       /\ pc' = IF mk THEN "relocate" ELSE "idle"
                ELSE /\ pc' = "relocate"
                     /\ UNCHANGED <<runs, dirs, faults>>
  /\ UNCHANGED <<fs, output_directory, in_place, start_year_month,
                 success_count, total_count, probe>>

\* Lines 288-291: one iteration of the loop over media_files.
Relocate ==
  /\ pc = "relocate"
  /\ total_count < Len(media_files)
  /\ \E io \in IOChoices :
       LET file_path == media_files[total_count + 1]
           r == copy_and_rename_file(fs, dirs, file_path, output_directory, dry_run,
                                     in_place, io)
           logged == [runs EXCEPT ![Len(runs)].log = Append(@, r.entry)]
       IN /\ io = "none" \/ (r.faulted /\ faults < MaxFaults)
          /\ faults' = IF io = "none" THEN faults ELSE faults + 1
          /\ total_count' = total_count + 1
          /\ fs' = r.fs
          /\ dirs' = r.dirs
          /\ success_count' = IF r.ret THEN success_count + 1 ELSE success_count
          /\ runs' = IF r.raised THEN Finish(logged, "exception") ELSE logged
          /\ pc' = IF r.raised THEN "idle" ELSE "relocate"
  /\ UNCHANGED <<output_directory, in_place, start_year_month,
                 media_files_with_metadata, media_files, probe>>

\* Lines 293-296: the loop is over, the summary is printed.
Summarize ==
  /\ pc = "relocate"
  /\ total_count = Len(media_files)
  /\ runs' = [Finish(runs, "summary") EXCEPT ![Len(runs)].success = success_count,
                                             ![Len(runs)].total = total_count]
  /\ pc' = "idle"
  /\ UNCHANGED <<fs, dirs, output_directory, in_place, start_year_month,
                 media_files_with_metadata, media_files, success_count, total_count,
                 faults, probe>>

Next ==
  \/ \E d \in BOOLEAN : Start(d)
  \/ Prepare
  \/ Relocate
  \/ Summarize

Spec == Init /\ [][Next]_vars

\* Repeated runs over the same tree.
NextRerun ==
  \/ Next
  \/ Restart

SpecRerun == Init /\ [][NextRerun]_vars

\* ============================================================ properties
Ended(run) == run.outcome # "running"
Range(seq) == {seq[k] : k \in 1..Len(seq)}
Decisions(log) == [k \in 1..Len(log) |-> <<log[k].dest, log[k].decision>>]
LogFiles(log) == [k \in 1..Len(log) |-> log[k].file]

\* The timestamp a file had when the run started.
DateAtStart(run, file_path) == get_file_metadata(run.fs0, file_path).date

\* The candidates of a run whose metadata resolves.
ResolvedAtStart(run) ==
  {p \in DOMAIN run.fs0 : p[1] = InputDir /\ run.fs0[p].ok}

\* A cutoff string of the form YYYY/MM: two integer parts, the month in 1..12.
WellFormed(s) ==
  /\ s.given
  /\ Len(s.parts) = 2
  /\ \A k \in 1..2 : s.parts[k].kind = "int"
  /\ s.parts[2].val \in 1..12

\* ------------------------------------------------------------ C1
\* C1: a live run that follows a live run on the same directories leaves the
\* tree as the first run left it, and decides "already exists" for every file
\* of its relocation set.  Stated for runs in which no I/O operation failed.
C1_SecondRunOnlySkips ==
  \A k \in 1..(Len(runs) - 1) :
    ( /\ ~runs[k].dry /\ ~runs[k + 1].dry
      /\ Ended(runs[k]) /\ Ended(runs[k + 1])
      /\ k + 1 = Len(runs)
      /\ faults = 0 )
    => /\ fs = runs[k + 1].fs0
       /\ dirs = runs[k + 1].dirs0
       /\ \A e \in Range(runs[k + 1].log) : e.decision = "skip"

\* ------------------------------------------------------------ C2
\* C2: whatever order the scanner yields the files in, copy_and_rename_file is
\* called on them in non-decreasing order of their timestamps.
C2_RelocationInDateOrder ==
  \A k \in 1..Len(runs) :
    \A i, j \in 1..Len(runs[k].log) :
      i < j => DateLE(DateAtStart(runs[k], runs[k].log[i].file),
                      DateAtStart(runs[k], runs[k].log[j].file))

\* The scanner yielded the files out of date order, and files of different
\* dates have been relocated.
C2_Witness ==
  /\ runs # <<>>
  /\ ~cur.inOrder
  /\ cur.outcome = "summary"
  /\ \E i, j \in 1..Len(cur.log) :
       DateLess(DateAtStart(cur, cur.log[i].file), DateAtStart(cur, cur.log[j].file))

\* ------------------------------------------------------------ C3
\* The first moment of the month a well-formed cutoff names.
FirstMoment(s) == <<s.parts[1].val, s.parts[2].val, 1>>

\* C3: with a well-formed cutoff YYYY/MM the relocation set is exactly the
\* resolved files dated at or after the first moment of that month, each once,
\* and copy_and_rename_file is called on these in turn.
C3_CutoffFilter ==
  (runs # <<>> /\ WellFormed(start_year_month) /\ pc = "relocate")
  => /\ Range(media_files) =
          {p \in ResolvedAtStart(cur) :
             DateLE(FirstMoment(start_year_month), DateAtStart(cur, p))}
     /\ Len(media_files) = Cardinality(Range(media_files))
     /\ \A k \in 1..Len(cur.log) : cur.log[k].file = media_files[k]

\* A cutoff kept one file of its month and one of a later year and dropped an
\* earlier one, and the kept ones were relocated.
C3_Witness ==
  /\ runs # <<>>
  /\ WellFormed(start_year_month)
  /\ pc = "relocate"
  /\ total_count = Len(media_files)
  /\ \E p, q, r \in ResolvedAtStart(cur) :
       /\ DateAtStart(cur, p)[2] = start_year_month.parts[2].val
       /\ DateAtStart(cur, q)[1] > start_year_month.parts[1].val
       /\ p \in Range(LogFiles(cur.log)) /\ q \in Range(LogFiles(cur.log))
       /\ r \notin Range(media_files)

\* ------------------------------------------------------------ C4
\* A cutoff string was given and is not of the form YYYY/MM.
Malformed(s) == s.given /\ ~WellFormed(s)

\* C4: with a cutoff string that is not a well-formed YYYY/MM, a run relocates
\* no file, creates no directory, and ends by reporting the invalid cutoff.
\* Stated for input directories that hold a file whose metadata resolves (C4
\* says the same of the others) and for runs in which no I/O operation failed.
C4_MalformedCutoffAborts ==
  (runs # <<>> /\ Malformed(start_year_month) /\ ResolvedAtStart(cur) # {} /\ faults = 0)
  => /\ fs = cur.fs0
     /\ dirs = cur.dirs0
     /\ cur.log = <<>>
     /\ Ended(cur) => cur.outcome = "bad_cutoff"

\* ------------------------------------------------------------ C5
\* C5: during and after a dry run the files and the directories are those the
\* run started from.
C5_DryRunChangesNothing ==
  (runs # <<>> /\ cur.dry) => (fs = cur.fs0 /\ dirs = cur.dirs0)

\* A dry run reached its summary having decided to copy or move a file into a
\* directory that does not exist, and to skip another.
C5_Witness ==
  /\ runs # <<>>
  /\ cur.dry
  /\ cur.outcome = "summary"
  /\ \E e \in Range(cur.log) :
       e.decision \in {"copy", "move"} /\ Parent(e.dest) \notin dirs
  /\ \E e \in Range(cur.log) : e.decision = "skip"

\* ------------------------------------------------------------ C6
\* C6: a dry run and the live run that follows it from the same files and
\* directories report the same (destination, decision) for each file in turn.
\* Stated for runs in which no I/O operation failed.
C6_DryRunPreviewsLiveRun ==
  \A k \in 1..(Len(runs) - 1) :
    ( /\ runs[k].dry /\ ~runs[k + 1].dry
      /\ Ended(runs[k]) /\ Ended(runs[k + 1])
      /\ runs[k + 1].fs0 = runs[k].fs0 /\ runs[k + 1].dirs0 = runs[k].dirs0
      /\ faults = 0 )
    => Decisions(runs[k].log) = Decisions(runs[k + 1].log)

\* ------------------------------------------------------------ C7
\* The call of copy_and_rename_file made by this step, and what it decided.
RelocateStep == pc = "relocate" /\ total_count' = total_count + 1
LastEntry == runs'[Len(runs')].log[total_count']

\* The path computed for the file, without a counter suffix.
ExactPath(e) == SubSeq(e.dest, 1, 4)

\* C7: when something exists at the exact path computed for a file, the call
\* returns True and changes nothing: no file is written, replaced or removed,
\* in copy mode and in in-place mode.
C7_ExistingDestinationSkipped ==
  [][ (RelocateStep /\ LastEntry.dest # NoPath
         /\ Exists(fs, dirs, ExactPath(LastEntry)))
      => (fs' = fs /\ dirs' = dirs /\ success_count' = success_count + 1) ]_vars

\* A live run skipped a file whose computed path held other bytes; both files
\* are as they were.
C7_Witness ==
  /\ runs # <<>>
  /\ ~cur.dry
  /\ \E e \in Range(cur.log) :
       /\ e.decision = "skip"
       /\ e.file \in DOMAIN fs /\ e.dest \in DOMAIN fs
       /\ fs[e.dest] # fs[e.file]
       /\ fs[e.dest] = cur.fs0[e.dest]

\* ------------------------------------------------------------ C8
CopyKeepsSources ==
  (runs # <<>> /\ ~in_place /\ ~cur.dry)
  => \A p \in DOMAIN cur.fs0 :
       p[1] = InputDir => (p \in DOMAIN fs /\ fs[p] = cur.fs0[p])

RelocationEffect ==
  (RelocateStep /\ ~cur.dry /\ LastEntry.ok /\ LastEntry.decision \in {"copy", "move"})
  => LET e == LastEntry
     IN /\ e.dest \notin DOMAIN fs
        /\ e.dest \in DOMAIN fs'
        /\ fs'[e.dest] = fs[e.file]
        /\ IF in_place
           THEN e.file \notin DOMAIN fs'
           ELSE e.file \in DOMAIN fs' /\ fs'[e.file] = fs[e.file]

\* C8: a successful live relocation adds the destination file with the bytes of
\* the source; in copy mode the source stays as it was, in in-place mode the
\* source path is gone.  In a live run in copy mode every file of the source
\* tree stays at its path.
C8_CopyKeepsMoveRemoves == []CopyKeepsSources /\ [][RelocationEffect]_vars

\* A live run has moved a file in in-place mode.
C8_Witness ==
  /\ runs # <<>>
  /\ ~cur.dry
  /\ in_place
  /\ \E e \in Range(cur.log) :
       e.decision = "move" /\ e.ok /\ e.dest \in DOMAIN fs /\ e.file \notin DOMAIN fs

\* ------------------------------------------------------------ C9
\* C9: once a file has been handed to copy_and_rename_file, a failure while
\* relocating a file does not abort the batch: the run ends with the summary,
\* every file of the relocation set was attempted, and the files that failed are
\* counted as attempted and not as succeeded.
C9_RelocationFailureDoesNotAbort ==
  (runs # <<>> /\ Ended(cur) /\ cur.log # <<>>)
  => /\ cur.outcome = "summary"
     /\ Len(cur.log) = Len(media_files)
     /\ cur.total = Len(cur.log)
     /\ cur.success = Cardinality({k \in 1..Len(cur.log) : cur.log[k].ok})

\* ------------------------------------------------------------ C10
\* The resolved candidates of a run that the cutoff, if one is given, keeps.
KeptAtStart(run) ==
  {p \in ResolvedAtStart(run) :
     Truthy(start_year_month)
       => FromCutoff(DateAtStart(run, p), ParseCutoff(start_year_month).start_year,
                     ParseCutoff(start_year_month).start_month)}

\* C10: a candidate whose metadata does not resolve never enters the relocation
\* set and is never handed to copy_and_rename_file; it does not abort the run;
\* the summary's attempted total is the number of resolved files the cutoff
\* keeps, and succeeded <= attempted.
C10_UnresolvedNeverCounted ==
  runs # <<>> =>
    /\ Range(media_files) \subseteq ResolvedAtStart(cur)
    /\ \A e \in Range(cur.log) : e.file \in ResolvedAtStart(cur)
    /\ cur.outcome = "summary" =>
         /\ cur.total = Cardinality(KeptAtStart(cur))
         /\ cur.success <= cur.total
    /\ ( /\ Ended(cur) /\ faults = 0
         /\ ResolvedAtStart(cur) # {}
         /\ Truthy(start_year_month) => ParseCutoff(start_year_month).ok )
       => cur.outcome = "summary"

\* A run over a tree holding a file that does not resolve reached the summary
\* with every other file attempted.
C10_Witness ==
  /\ runs # <<>>
  /\ cur.outcome = "summary"
  /\ cur.total >= 1
  /\ \E p \in DOMAIN cur.fs0 : p[1] = InputDir /\ ~cur.fs0[p].ok

\* ------------------------------------------------------------ C11
HexChars == {"0", "1", "2", "3", "4", "5", "6", "7", "8", "9",
             "a", "b", "c", "d", "e", "f"}
IsHash8(h) == Len(h) = 8 /\ \A k \in 1..Len(h) : h[k] \in HexChars

\* The hash a destination name carries.
NameHash(dest) == dest[4][4]

\* The call the loop is about to make, with the read of generate_hash failing.
HashFailedCall ==
  copy_and_rename_file(fs, dirs, media_files[total_count + 1], output_directory,
                       dry_run, in_place, "hash")

\* C11: the hash in every destination name is 8 lowercase hexadecimal
\* characters; and wherever copy_and_rename_file is about to be called, a
\* failure to open or read the file in generate_hash raises nothing and is not
\* reported as a failure: the call returns True with a name that carries
\* "00000000", and a live call that does not skip leaves the file under that name.
C11_HashFailureGivesSentinel ==
  /\ \A k \in 1..Len(runs) : \A e \in Range(runs[k].log) :
        e.dest # NoPath => IsHash8(NameHash(e.dest))
  /\ (pc = "relocate" /\ total_count < Len(media_files))
     => LET r == HashFailedCall
        IN /\ r.ret /\ ~r.raised /\ r.entry.ok
           /\ r.entry.decision \in {"skip", "copy", "move"}
           /\ NameHash(r.entry.dest) = HashSentinel
           /\ (~dry_run /\ r.entry.decision # "skip")
              => (r.entry.dest \in DOMAIN r.fs
                  /\ r.fs[r.entry.dest] = fs[r.entry.file])

\* A live run has copied or moved a file under a name that carries the
\* sentinel, and another under a name that carries the prefix of its digest.
C11_Witness ==
  /\ runs # <<>>
  /\ ~cur.dry
  /\ \E e \in Range(cur.log) :
       /\ e.ok /\ e.decision \in {"copy", "move"}
       /\ NameHash(e.dest) = HashSentinel
       /\ e.dest \in DOMAIN fs
       /\ SubSeq(fs[e.dest].hash, 1, HashLength) # HashSentinel
  /\ \E e \in Range(cur.log) :
       /\ e.ok /\ e.decision \in {"copy", "move"}
       /\ e.dest \in DOMAIN fs
       /\ NameHash(e.dest) = SubSeq(fs[e.dest].hash, 1, HashLength)

\* ============================================================ helpers on their own
\* The main variables while one helper is examined on its own.
NoRun ==
  /\ fs = <<>> /\ dirs = {}
  /\ output_directory = OtherDir /\ in_place = FALSE /\ start_year_month = NoCutoff
  /\ runs = <<>> /\ pc = "idle"
  /\ media_files_with_metadata = <<>> /\ media_files = <<>>
  /\ success_count = 0 /\ total_count = 0 /\ faults = 0

main == <<fs, dirs, output_directory, in_place, start_year_month, runs, pc,
          media_files_with_metadata, media_files, success_count, total_count, faults>>

\* ------------------------------------------------------------ metadata resolvers
MaxTags == 2       \* EXIF tags of an image

\* A tag value.  A string is kept as its layout: the separator inside the date
\* (":" or "-"), the separator before the time (" " or "T"), a fractional part,
\* what follows the seconds, and the date it spells; Word is a string that spells
\* no date.  NotStr is a value that is not a string (an EXIF tag of a numeric or
\* byte type).
DateText(dsep, sep, frac, tail, date) ==
  [type |-> "str", dsep |-> dsep, sep |-> sep, frac |-> frac, tail |-> tail,
   date |-> date]
Word == DateText("?", " ", FALSE, "", NoDate)
NotStr == [type |-> "int", dsep |-> "?", sep |-> " ", frac |-> FALSE, tail |-> "",
           date |-> NoDate]

\* datetime.strptime(value, "%Y<dsep>%m<dsep>%d %H:%M:%S"): TypeError for a
\* value that is not a string, ValueError for a string of another layout or
\* with a field out of range, the date otherwise.
Strptime(value, dsep) ==
  IF value.type # "str" THEN [raises |-> "TypeError", date |-> NoDate]
  ELSE IF /\ value.dsep = dsep /\ value.sep = " " /\ ~value.frac /\ value.tail = ""
          /\ value.date # NoDate /\ value.date[2] \in 1..12
       THEN [raises |-> "none", date |-> value.date]
       ELSE [raises |-> "ValueError", date |-> NoDate]

Mtime == <<2020, 2, 2>>            \* datetime.fromtimestamp(os.path.getmtime(path))

\* Lines 38-47: the loop over the tags of the image, in the order the EXIF data
\* yields them.  The result is the date taken ("none" when no tag gave one) or
\* the exception that left the loop.
RECURSIVE ExifDate(_)
ExifDate(exif) ==
  IF exif = <<>> THEN [raises |-> "none", date |-> NoDate]
  ELSE LET tag == Head(exif)[1]
           data == Head(exif)[2]
           parsed == Strptime(data, ":")
       IN IF tag = "DateTime" \/ tag = "DateTimeOriginal"
          THEN IF parsed.raises = "none" THEN parsed
               ELSE IF parsed.raises = "ValueError" THEN ExifDate(Tail(exif))
               ELSE parsed
          ELSE ExifDate(Tail(exif))

\* get_image_metadata.
get_image_metadata(image) ==
  IF ~image.opens THEN NoMeta
  ELSE LET taken == ExifDate(image.exif)
       IN IF taken.raises # "none" THEN NoMeta
          ELSE [date |-> IF taken.date = NoDate THEN Mtime ELSE taken.date,
                width |-> image.width, height |-> image.height]

\* Lines 109-114: a tag value of the container made ready and parsed.
VideoDate(value) ==
  LET spaced == IF value.sep = "T"
                THEN [value EXCEPT !.sep = " ",
                                   !.tail = IF value.frac THEN "" ELSE value.tail,
                                   !.frac = FALSE]
                ELSE value
      ready == IF value.sep = "T" /\ spaced.tail = "Z"
               THEN [spaced EXCEPT !.tail = ""] ELSE spaced
  IN Strptime(ready, "-")

date_fields == <<"creation_time", "date", "datetime">>

\* Lines 105-117: the first field of date_fields, from position k on, that is
\* among the tags and parses; a ValueError moves on to the next field, any
\* other exception leaves the loop.
RECURSIVE TagDate(_, _)
TagDate(tags, k) ==
  IF k > Len(date_fields) THEN [raises |-> "none", date |-> NoDate]
  ELSE IF date_fields[k] \in DOMAIN tags
       THEN LET parsed == VideoDate(tags[date_fields[k]])
            IN IF parsed.raises = "ValueError" THEN TagDate(tags, k + 1) ELSE parsed
       ELSE TagDate(tags, k + 1)

\* Lines 82-86: the first stream of type video, 0 for none.
RECURSIVE FirstVideoStream(_, _)
FirstVideoStream(streams, k) ==
  IF k > Len(streams) THEN 0
  ELSE IF streams[k].codec_type = "video" THEN k
       ELSE FirstVideoStream(streams, k + 1)

\* get_video_metadata.  report is what ffprobe gave: its exit status, whether
\* its output is JSON, the streams (width and height 0 when missing) and the
\* tags of the format section.
get_video_metadata(report) ==
  LET k == FirstVideoStream(report.streams, 1)
      taken == TagDate(report.tags, 1)
  IN IF report.returncode # 0 \/ ~report.json THEN NoMeta
     ELSE IF k = 0 THEN NoMeta
     ELSE IF report.streams[k].width = 0 \/ report.streams[k].height = 0 THEN NoMeta
     ELSE IF taken.raises # "none" THEN NoMeta
     ELSE [date |-> IF taken.date = NoDate THEN Mtime ELSE taken.date,
           width |-> report.streams[k].width, height |-> report.streams[k].height]

\* ------------------------------------------------------------ the resolvers on their own
Taken1 == <<2023, 12, 25>>
Taken2 == <<2021, 6, 15>>
Taken3 == <<2019, 3, 9>>

\* Values of an EXIF tag: two capture times in the EXIF layout, a date with
\* month 13, a date in another layout, a word, and a value that is no string.
ExifValues ==
  { DateText(":", " ", FALSE, "", Taken1), DateText(":", " ", FALSE, "", Taken2),
    DateText(":", " ", FALSE, "", <<2023, 13, 1>>),
    DateText("-", " ", FALSE, "", Taken3), Word, NotStr }
ExifTags == {"DateTime", "DateTimeOriginal", "Make"}

Seqs(S, n) == UNION {[1..k -> S] : k \in 0..n}

Images ==
  {[opens |-> TRUE, width |-> 640, height |-> 480, exif |-> e] :
     e \in Seqs(ExifTags \X ExifValues, MaxTags)}
  \cup {[opens |-> FALSE, width |-> 0, height |-> 0, exif |-> <<>>]}

\* Values of a container tag (ffprobe prints every tag as a string):
\* "2023-12-25T14:30:45.000000Z", "2021-06-15T10:00:00Z", "2019-03-09 08:00:00",
\* "2023-12-25T14:30:45+01:00", "2021-06-15 10:00:00.5", and a word.
VideoValues ==
  { DateText("-", "T", TRUE, "Z", Taken1), DateText("-", "T", FALSE, "Z", Taken2),
    DateText("-", " ", FALSE, "", Taken3), DateText("-", "T", FALSE, "+01:00", Taken1),
    DateText("-", " ", TRUE, "", Taken2), Word }

Stream(t, w, h) == [codec_type |-> t, width |-> w, height |-> h]
StreamLists ==
  { <<>>, <<Stream("audio", 0, 0)>>, <<Stream("video", 1920, 1080)>>,
    <<Stream("audio", 0, 0), Stream("video", 1920, 1080)>>,
    <<Stream("video", 0, 1080)>>, <<Stream("video", 1920, 0)>>,
    <<Stream("video", 1280, 720), Stream("video", 1920, 1080)>>,
    <<Stream("video", 0, 0), Stream("video", 1920, 1080)>> }

TagMaps == UNION {[F -> VideoValues] : F \in SUBSET {"creation_time", "date", "datetime"}}

Reports ==
  {[returncode |-> 0, json |-> TRUE, streams |-> st, tags |-> t] :
     st \in StreamLists, t \in TagMaps}
  \cup {[returncode |-> rc, json |-> j, streams |-> <<Stream("video", 1920, 1080)>>,
         tags |-> <<>>] : rc \in {0, 1}, j \in BOOLEAN}

InitMetadata ==
  /\ NoRun
  /\ probe \in {[fn |-> "image", arg |-> i, done |-> FALSE, out |-> NoMeta] : i \in Images}
               \cup {[fn |-> "video", arg |-> r, done |-> FALSE, out |-> NoMeta] :
                       r \in Reports}

ResolveImage ==
  /\ probe.fn = "image" /\ ~probe.done
  /\ probe' = [probe EXCEPT !.done = TRUE, !.out = get_image_metadata(probe.arg)]
  /\ UNCHANGED main

ResolveVideo ==
  /\ probe.fn = "video" /\ ~probe.done
  /\ probe' = [probe EXCEPT !.done = TRUE, !.out = get_video_metadata(probe.arg)]
  /\ UNCHANGED main

NextMetadata ==
  \/ ResolveImage
  \/ ResolveVideo

SpecMetadata == InitMetadata /\ [][NextMetadata]_vars

\* ------------------------------------------------------------ C12
\* The recognized tags of an image whose value parses under %Y:%m:%d %H:%M:%S.
ParsingTags(exif) ==
  {k \in 1..Len(exif) : /\ exif[k][1] \in {"DateTime", "DateTimeOriginal"}
                        /\ Strptime(exif[k][2], ":").raises = "none"}

\* The fields of date_fields, by position, that the tags hold with a value that parses.
ParsingFields(tags) ==
  {k \in 1..Len(date_fields) : /\ date_fields[k] \in DOMAIN tags
                               /\ VideoDate(tags[date_fields[k]]).raises = "none"}

Least(S) == CHOOSE k \in S : \A j \in S : k <= j

\* The dimensions of a video can be determined.
DimensionsKnown(report) ==
  /\ report.returncode = 0 /\ report.json
  /\ \E k \in 1..Len(report.streams) :
       /\ report.streams[k].codec_type = "video"
       /\ \A j \in 1..(k - 1) : report.streams[j].codec_type # "video"
       /\ report.streams[k].width > 0 /\ report.streams[k].height > 0

\* C12: an image that opens and a video whose first video stream has a width
\* and a height resolve, whatever their date tags hold: the timestamp is the
\* first embedded time that parses (image: a DateTime or DateTimeOriginal tag;
\* video: creation_time, date, datetime in this order), and the file's mtime
\* when no tag is there or none parses.
C12_ResolvesWithAnyDateTags ==
  /\ (probe.fn = "image" /\ probe.done /\ probe.arg.opens)
     => /\ probe.out.width = probe.arg.width /\ probe.out.height = probe.arg.height
        /\ probe.out.date =
             IF ParsingTags(probe.arg.exif) # {}
             THEN probe.arg.exif[Least(ParsingTags(probe.arg.exif))][2].date
             ELSE Mtime
  /\ (probe.fn = "video" /\ probe.done /\ DimensionsKnown(probe.arg))
     => /\ probe.out.width > 0 /\ probe.out.height > 0
        /\ probe.out.date =
             IF ParsingFields(probe.arg.tags) # {}
             THEN probe.arg.tags[date_fields[Least(ParsingFields(probe.arg.tags))]].date
             ELSE Mtime

\* ------------------------------------------------------------ names as text
\* Text is a sequence of one-character strings.
DigitChars == <<"0", "1", "2", "3", "4", "5", "6", "7", "8", "9">>

\* str(n) for n >= 0.
RECURSIVE Decimal(_)
Decimal(n) ==
  IF n < 10 THEN <<DigitChars[n + 1]>>
  ELSE Append(Decimal(n \div 10), DigitChars[(n % 10) + 1])

\* str.zfill(width) and s[:n].
Zfill(text, width) ==
  IF Len(text) >= width THEN text ELSE [k \in 1..(width - Len(text)) |-> "0"] \o text
Take(text, n) == SubSeq(text, 1, IF Len(text) < n THEN Len(text) ELSE n)

\* str.lower() on the letters that occur in the names of this model.
UpperCase == <<"J", "P", "G", "E", "M", "O", "V", "N", "T", "X">>
LowerCase == <<"j", "p", "g", "e", "m", "o", "v", "n", "t", "x">>
LowerChar(c) ==
  IF \E k \in 1..Len(UpperCase) : UpperCase[k] = c
  THEN LowerCase[CHOOSE k \in 1..Len(UpperCase) : UpperCase[k] = c]
  ELSE c
Lower(text) == [k \in 1..Len(text) |-> LowerChar(text[k])]

\* os.path.splitext(name): the extension starts at the last dot, unless that
\* dot is among the dots the name begins with.
Splitext(name) ==
  LET dots == {k \in 1..Len(name) : name[k] = "."}
      last == CHOOSE k \in dots : \A j \in dots : j <= k
  IN IF dots = {} \/ (\A j \in 1..last : name[j] = ".")
     THEN <<name, <<>>>>
     ELSE <<SubSeq(name, 1, last - 1), SubSeq(name, last, Len(name))>>

\* strftime: %Y, and %m %d %H %M %S.
Year4(n) == Zfill(Decimal(n), 4)
Two(n) == Zfill(Decimal(n), 2)

\* str(microsecond)[:4], the zfill(6) of line 173 lost.
MicrosecondDigits_unpadded(microsecond) == Take(Decimal(microsecond), 4)

\* Line 173.
MicrosecondDigits(microsecond) == Take(Zfill(Decimal(microsecond), 6), 4)

\* Lines 174-175.
DateStr(date_taken) ==
  Year4(date_taken.year) \o <<"-">> \o Two(date_taken.month) \o <<"-">>
    \o Two(date_taken.day) \o <<"_">> \o Two(date_taken.hour) \o <<".">>
    \o Two(date_taken.minute) \o <<".">> \o Two(date_taken.second) \o <<".">>
    \o MicrosecondDigits(date_taken.microsecond)

\* Lines 159-184: the directories below output_dir and the file name, as text.
DestinationText(filename, date_taken, width, height, file_hash) ==
  LET file_ext == Lower(Splitext(filename)[2])
  IN [year |-> Year4(date_taken.year),
      month |-> MonthNames[date_taken.month],
      new_filename |-> DateStr(date_taken) \o <<"_">> \o Decimal(width) \o <<"x">>
                         \o Decimal(height) \o <<"_">> \o file_hash \o file_ext]

\* ------------------------------------------------------------ the name builder on its own
\* Resolved timestamps, as datetime holds them.
Datetimes ==
  [year : {987, 2023}, month : {1, 12}, day : {5, 31}, hour : {0, 23},
   minute : {7}, second : {59}, microsecond : {0, 99, 5000, 123400, 999999}]

\* Source file names: the stem, the extension as written and in lower case.
FileName(stem, ext, lower) == [stem |-> stem, ext |-> ext, lower |-> lower]
FileNames ==
  { FileName(<<"I", "M", "G">>, <<".", "J", "P", "G">>, <<".", "j", "p", "g">>),
    FileName(<<"a", ".", "b">>, <<".", "j", "p", "e", "g">>, <<".", "j", "p", "e", "g">>),
    FileName(<<"c">>, <<".", "M", "o", "v">>, <<".", "m", "o", "v">>) }

Widths == {1, 640, 1920}
Heights == {480}
Hashes == {HashSentinel, <<"a", "1", "b", "2", "c", "3", "d", "4">>}

InitNaming ==
  /\ NoRun
  /\ probe \in {[fn |-> "name", arg |-> a, done |-> FALSE,
                 out |-> [year |-> <<>>, month |-> "", new_filename |-> <<>>]] :
                  a \in [file : FileNames, date_taken : Datetimes, width : Widths,
                         height : Heights, file_hash : Hashes]}

\* Lines 159-184 for a file whose metadata resolved.
BuildName ==
  /\ probe.fn = "name" /\ ~probe.done
  /\ probe' = [probe EXCEPT
                 !.done = TRUE,
                 !.out = DestinationText(probe.arg.file.stem \o probe.arg.file.ext,
                                         probe.arg.date_taken, probe.arg.width,
                                         probe.arg.height, probe.arg.file_hash)]
  /\ UNCHANGED main

NextNaming ==
  \/ BuildName

SpecNaming == InitNaming /\ [][NextNaming]_vars

\* ------------------------------------------------------------ C13
IsDigits(text) == \A k \in 1..Len(text) : \E d \in 1..10 : DigitChars[d] = text[k]
DigitVal(c) == (CHOOSE d \in 1..10 : DigitChars[d] = c) - 1

\* The number a text of digits spells.
RECURSIVE Val(_)
Val(text) ==
  IF text = <<>> THEN 0
  ELSE 10 * Val(SubSeq(text, 1, Len(text) - 1)) + DigitVal(text[Len(text)])

\* The text spells n in exactly Len(text) digits.
Spells(text, n) == IsDigits(text) /\ Val(text) = n

EnglishMonths ==
  <<"January", "February", "March", "April", "May", "June", "July", "August",
    "September", "October", "November", "December">>

\* C13: the directories are the year in 4 digits and the English month name,
\* and the file name is YYYY-MM-DD_HH.MM.SS.ssss_WIDTHxHEIGHT_HASH followed by
\* the extension in lower case: every date and time field zero-padded to its
\* width, ssss the first 4 of the 6 digits of the microsecond.
C13_DestinationNameFormat ==
  (probe.fn = "name" /\ probe.done)
  => LET n == probe.out.new_filename
         a == probe.arg
         dt == probe.arg.date_taken
         rest == SubSeq(n, 26, Len(n))
     IN /\ Len(probe.out.year) = 4 /\ Spells(probe.out.year, dt.year)
        /\ probe.out.month = EnglishMonths[dt.month]
        /\ Len(n) > 25
        /\ Spells(SubSeq(n, 1, 4), dt.year) /\ n[5] = "-"
        /\ Spells(SubSeq(n, 6, 7), dt.month) /\ n[8] = "-"
        /\ Spells(SubSeq(n, 9, 10), dt.day) /\ n[11] = "_"
        /\ Spells(SubSeq(n, 12, 13), dt.hour) /\ n[14] = "."
        /\ Spells(SubSeq(n, 15, 16), dt.minute) /\ n[17] = "."
        /\ Spells(SubSeq(n, 18, 19), dt.second) /\ n[20] = "."
        /\ Spells(SubSeq(n, 21, 24), dt.microsecond \div 100) /\ n[25] = "_"
        /\ \E w \in 1..4, h \in 1..4 :
             /\ Len(rest) = w + 1 + h + 1 + 8 + Len(a.file.lower)
             /\ Spells(SubSeq(rest, 1, w), a.width) /\ rest[1] # "0"
             /\ rest[w + 1] = "x"
             /\ Spells(SubSeq(rest, w + 2, w + 1 + h), a.height) /\ rest[w + 2] # "0"
             /\ rest[w + h + 2] = "_"
             /\ SubSeq(rest, w + h + 3, w + h + 10) = a.file_hash
             /\ SubSeq(rest, w + h + 11, Len(rest)) = a.file.lower

\* Names have been built for timestamps with microsecond 99, 123400 and 0, for
\* a year below 1000, and from an extension in upper case.
C13_Witness ==
  /\ probe.fn = "name" /\ probe.done
  /\ probe.arg.date_taken.microsecond = 99
  /\ probe.arg.date_taken.year < 1000
  /\ probe.arg.file.ext # probe.arg.file.lower
  /\ SubSeq(probe.out.new_filename, 21, 24) = <<"0", "0", "0", "0">>

\* ------------------------------------------------------------ the scanner on its own
MaxDepth == 2      \* directories between the root and a file

supported_formats ==
  { <<".", "j", "p", "g">>, <<".", "j", "p", "e", "g">>, <<".", "p", "n", "g">>,
    <<".", "t", "i", "f", "f">>, <<".", "t", "i", "f">>, <<".", "b", "m", "p">>,
    <<".", "g", "i", "f">>, <<".", "w", "e", "b", "p">>, <<".", "h", "e", "i", "c">>,
    <<".", "m", "o", "v">>, <<".", "m", "p", "4">> }

\* Names of files: a.jpg, b.JPG, c.Mov, d.txt, .e.jpg, .png, f (no extension),
\* g.jpg.x.
ScanFileNames ==
  { <<"a", ".", "j", "p", "g">>, <<"b", ".", "J", "P", "G">>, <<"c", ".", "M", "o", "v">>,
    <<"d", ".", "t", "x", "t">>, <<".", "e", ".", "j", "p", "g">>, <<".", "p", "n", "g">>,
    <<"f">>, <<"g", ".", "j", "p", "g", ".", "x">> }

\* Names of directories: sub and .hid
ScanDirNames == { <<"s", "u", "b">>, <<".", "h", "i", "d">> }

\* A file of a tree is the list of the directory names from the root down to
\* it, then its name.  A tree is the set of its files, here two at most.
ScanPaths == {d \o <<f>> : d \in Seqs(ScanDirNames, MaxDepth), f \in ScanFileNames}
Trees == {{}} \cup {{p, q} : p \in ScanPaths, q \in ScanPaths}

\* Lines 229-235: os.walk visits every directory below the root; of the files
\* of each, those whose name does not start with a dot and whose extension, in
\* lower case, is supported.
WalkMediaFiles(tree) ==
  {path \in tree :
     LET file == path[Len(path)]
     IN /\ file[1] # "."
        /\ Lower(Splitext(file)[2]) \in supported_formats}

InitScan ==
  /\ NoRun
  /\ probe \in {[fn |-> "scan", arg |-> t, done |-> FALSE, out |-> {}] : t \in Trees}

Walk ==
  /\ probe.fn = "scan" /\ ~probe.done
  /\ probe' = [probe EXCEPT !.done = TRUE, !.out = WalkMediaFiles(probe.arg)]
  /\ UNCHANGED main

NextScan ==
  \/ Walk

SpecScan == InitScan /\ [][NextScan]_vars

\* ------------------------------------------------------------ C14
\* Some entry of the path below the root, directory or file, has a name that
\* starts with a dot.
HasHiddenEntry(path) == \E k \in 1..Len(path) : path[k][1] = "."

\* The extension of the file, compared without regard to case, is supported.
SupportedFile(path) ==
  \E ext \in supported_formats :
    LET file == path[Len(path)]
        from == Len(file) - Len(ext)
    IN /\ from >= 1
       /\ \A k \in 1..Len(ext) : LowerChar(file[from + k]) = ext[k]

\* C14: the scanner yields exactly the files, at any depth, whose extension is
\* supported and on whose path below the root no directory and no file name
\* starts with a dot.
C14_ScannerSkipsHiddenAndUnsupported ==
  (probe.fn = "scan" /\ probe.done)
  => probe.out = {path \in probe.arg : SupportedFile(path) /\ ~HasHiddenEntry(path)}

\* ------------------------------------------------------------ the validity checker on its own
\* is_processable_media_file is not in photo_video_renamer.py as it stands; it
\* is modelled from section 4.1 of the specification, its checks in the order
\* the section gives them.
MinimumSize == 100
image_formats == supported_formats \ {<<".", "m", "o", "v">>, <<".", "m", "p", "4">>}

Verdict(valid, reason) == [valid |-> valid, reason |-> reason]

\* The extension tested before the size.
is_processable_media_file_format_first(fsys, path) ==
  IF path \notin DOMAIN fsys \/ ~fsys[path].openable
  THEN Verdict(FALSE, "cannot access")
  ELSE IF Lower(Splitext(fsys[path].name)[2]) \notin supported_formats
  THEN Verdict(FALSE, "Unsupported format")
  ELSE IF fsys[path].size < MinimumSize
  THEN Verdict(FALSE, "too small")
  ELSE IF Lower(Splitext(fsys[path].name)[2]) \in image_formats /\ ~fsys[path].decodes
  THEN Verdict(FALSE, "decode error")
  ELSE Verdict(TRUE, "none")

is_processable_media_file(fsys, path) ==
  IF path \notin DOMAIN fsys \/ ~fsys[path].openable
  THEN Verdict(FALSE, "cannot access")
  ELSE IF fsys[path].size < MinimumSize
  THEN Verdict(FALSE, "too small")
  ELSE IF Lower(Splitext(fsys[path].name)[2]) \notin supported_formats
  THEN Verdict(FALSE, "Unsupported format")
  ELSE IF Lower(Splitext(fsys[path].name)[2]) \in image_formats /\ ~fsys[path].decodes
  THEN Verdict(FALSE, "decode error")
  ELSE Verdict(TRUE, "none")

\* Names a.jpg, b.JPG, c.Mov, d.txt and f.
CheckedNames ==
  { <<"a", ".", "j", "p", "g">>, <<"b", ".", "J", "P", "G">>, <<"c", ".", "M", "o", "v">>,
    <<"d", ".", "t", "x", "t">>, <<"f">> }
CheckedFiles ==
  [name : CheckedNames, size : {0, 5, 99, 100, 200}, openable : BOOLEAN,
   decodes : BOOLEAN]

InitCheck ==
  /\ dirs = {<<InputDir>>}
  /\ fs \in {<<>>} \cup {[p \in {SrcPath(1)} |-> f] : f \in CheckedFiles}
  /\ output_directory = OtherDir /\ in_place = FALSE /\ start_year_month = NoCutoff
  /\ runs = <<>> /\ pc = "idle"
  /\ media_files_with_metadata = <<>> /\ media_files = <<>>
  /\ success_count = 0 /\ total_count = 0 /\ faults = 0
  /\ probe = [fn |-> "check", arg |-> SrcPath(1), fs0 |-> fs, done |-> FALSE,
              out |-> Verdict(FALSE, "none")]

CheckFile ==
  /\ probe.fn = "check" /\ ~probe.done
  /\ probe' = [probe EXCEPT !.done = TRUE, !.out = is_processable_media_file(fs, probe.arg)]
  /\ UNCHANGED main

NextCheck ==
  \/ CheckFile

SpecCheck == InitCheck /\ [][NextCheck]_vars

\* ------------------------------------------------------------ C15
Accessible(path) == path \in DOMAIN fs /\ fs[path].openable
SupportedName(path) == SupportedFile(<<fs[path].name>>)
ImageName(path) ==
  SupportedName(path) /\ Lower(Splitext(fs[path].name)[2]) \in image_formats

\* What C15 says of every file but those with an unsupported extension.
CheckedAsSpecified ==
  LET path == probe.arg
      out == probe.out
  IN /\ ~Accessible(path) => out = Verdict(FALSE, "cannot access")
     /\ (Accessible(path) /\ fs[path].size < 100) => out = Verdict(FALSE, "too small")
     /\ ( /\ Accessible(path) /\ fs[path].size >= 100
          /\ ImageName(path) /\ ~fs[path].decodes )
        => (~out.valid /\ out.reason # "none")
     /\ ( /\ Accessible(path) /\ fs[path].size >= 100
          /\ ImageName(path) /\ fs[path].decodes )
        => out = Verdict(TRUE, "none")
     /\ fs = probe.fs0 /\ dirs = {<<InputDir>>}

MaxTaken == 2      \* names another process takes during one call

\* A file that another process wrote.
Foreign == [ok |-> FALSE, date |-> NoDate, width |-> 0, height |-> 0,
            hash |-> HexDigest("e"), body |-> 2]

\* original, original_001, ... : the name the loop of lines 198-201 tries at a counter.
Candidate(original, counter) ==
  IF counter = 0 THEN original ELSE Append(original, counter)

\* Lines 199-200 on the text of the name: the counter in 3 digits between the
\* name without its extension and the extension.
SuffixedName(original_new_filename, counter, file_ext) ==
  Splitext(original_new_filename)[1] \o <<"_">> \o Zfill(Decimal(counter), 3) \o file_ext

\* One iteration of the loop of lines 288-291 during which another process
\* creates files: after the call found nothing at the computed path (line 187)
\* and before it looks again (line 198), the path, and the next names with a
\* counter, are taken.
RelocateRaced ==
  /\ pc = "relocate"
  /\ total_count < Len(media_files)
  /\ faults < MaxFaults
  /\ \E taken \in 1..MaxTaken :
       LET file_path == media_files[total_count + 1]
           meta == get_file_metadata(fs, file_path)
           original == NewPath(output_directory, meta, generate_hash(fs, file_path, TRUE),
                               FileExt(file_path))
           names == {Candidate(original, j) : j \in 0..(taken - 1)}
           fsLater == [p \in DOMAIN fs \cup names |-> IF p \in names THEN Foreign ELSE fs[p]]
           dsLater == Makedirs(dirs, Parent(original))
           r == RelocateAt(fs, dirs, fsLater, dsLater, file_path, output_directory,
                           dry_run, in_place, "none")
       IN /\ meta # NoMeta
          /\ ~AlreadyExists(fs, dirs, original)
          /\ names \cap DOMAIN fs = {}
          /\ faults' = faults + 1
          /\ total_count' = total_count + 1
          /\ fs' = r.fs
          /\ dirs' = r.dirs
          /\ success_count' = IF r.ret THEN success_count + 1 ELSE success_count
          /\ runs' = [runs EXCEPT ![Len(runs)].log = Append(@, r.entry)]
          /\ pc' = "relocate"
  /\ UNCHANGED <<output_directory, in_place, start_year_month,
                 media_files_with_metadata, media_files, probe>>

\* The run, with the other process as the only disturbance: no I/O operation fails.
NextRaced ==
  \/ \E d \in BOOLEAN : Start(d)
  \/ Prepare /\ faults' = faults
  \/ Relocate /\ faults' = faults
  \/ Summarize
  \/ RelocateRaced

\* The trees and modes of Init whose files all resolve, without a cutoff.
InitRaced ==
  /\ Init
  /\ start_year_month = NoCutoff
  /\ \A p \in DOMAIN fs : fs[p].ok

SpecRaced == InitRaced /\ [][NextRaced]_vars

\* ------------------------------------------------------------ C16
\* A name as text, to read the suffix on.
SampleName ==
  DestinationText(<<"I", "M", "G", ".", "J", "P", "G">>,
                  [year |-> 2023, month |-> 5, day |-> 20, hour |-> 10, minute |-> 0,
                   second |-> 0, microsecond |-> 0],
                  640, 480, HashSentinel).new_filename

\* The text of a name with a counter: the name without its extension, "_",
\* the counter in exactly 3 digits, the extension.
SuffixInThreeDigits(counter) ==
  LET ext == <<".", "j", "p", "g">>
      text == SuffixedName(SampleName, counter, ext)
      stem == Len(SampleName) - Len(ext)
  IN /\ Len(text) = Len(SampleName) + 4
     /\ SubSeq(text, 1, stem) = SubSeq(SampleName, 1, stem)
     /\ text[stem + 1] = "_"
     /\ Spells(SubSeq(text, stem + 2, stem + 4), counter)
     /\ SubSeq(text, stem + 5, Len(text)) = ext

\* The step is a call during which the computed path, free at the exists test,
\* was taken by a file of another process.
Collided ==
  /\ RelocateStep
  /\ LastEntry.dest # NoPath
  /\ ~Exists(fs, dirs, ExactPath(LastEntry))
  /\ ExactPath(LastEntry) \in DOMAIN fs'
  /\ fs'[ExactPath(LastEntry)] = Foreign

\* C16: a call that finds its computed path taken, other than by the exists
\* test of line 187, goes on to the names with the counter _001, _002, ...
\* before the extension, takes the first that is free, and in a live run
\* writes the file there; the names that were taken stay as they are.
C16_CounterSuffixOnCollision ==
  [][ Collided
      => LET e == LastEntry
             counter == e.dest[5]
         IN /\ Len(e.dest) = 5 /\ counter >= 1
            /\ SuffixInThreeDigits(counter)
            /\ \A j \in 1..(counter - 1) :
                 /\ Candidate(ExactPath(e), j) \in DOMAIN fs'
                 /\ fs'[Candidate(ExactPath(e), j)] = Foreign
            /\ e.dest \notin DOMAIN fs
            /\ e.ok /\ success_count' = success_count + 1
            /\ ~cur.dry => (e.dest \in DOMAIN fs' /\ fs'[e.dest] = fs[e.file])
            /\ cur.dry => e.dest \notin DOMAIN fs' ]_vars

\* A live run has written a file under the name with counter 2, next to the
\* two names another process took.
C16_Witness ==
  /\ runs # <<>>
  /\ ~cur.dry
  /\ \E e \in Range(cur.log) :
       /\ Len(e.dest) = 5 /\ e.dest[5] = 2 /\ e.ok
       /\ e.dest \in DOMAIN fs /\ fs[e.dest] # Foreign
       /\ fs[ExactPath(e)] = Foreign
       /\ fs[Candidate(ExactPath(e), 1)] = Foreign

\* ------------------------------------------------------------ C17
\* The positions of a log whose file got the same computed path as the file at
\* position i, which is the first to get it.
SameNameAfter(log, i) ==
  {j \in (i + 1)..Len(log) : log[j].dest # NoPath /\ ExactPath(log[j]) = ExactPath(log[i])}
FirstOfName(log, i) ==
  /\ log[i].dest # NoPath
  /\ \A h \in 1..(i - 1) : log[h].dest = NoPath \/ ExactPath(log[h]) # ExactPath(log[i])

\* C17: when files of one batch get the same computed path, free when the live
\* run starts, the first in relocation order is copied or moved there and each
\* later one is reported as already existing and counted as a success; after
\* the run, of these files only the one at the computed path is under the
\* destination root.  Stated for runs in which no I/O operation failed.
C17_SameNameFilesAreDuplicates ==
  (runs # <<>> /\ ~cur.dry /\ cur.outcome = "summary" /\ faults = 0)
  => \A i \in 1..Len(cur.log) :
       ( /\ FirstOfName(cur.log, i)
         /\ SameNameAfter(cur.log, i) # {}
         /\ ~Exists(cur.fs0, cur.dirs0, ExactPath(cur.log[i])) )
       => LET dest == ExactPath(cur.log[i])
              sources == {cur.log[j].file : j \in SameNameAfter(cur.log, i) \cup {i}}
          IN /\ cur.log[i].decision \in {"copy", "move"} /\ cur.log[i].dest = dest
             /\ \A j \in SameNameAfter(cur.log, i) :
                  cur.log[j].decision = "skip" /\ cur.log[j].ok
             /\ cur.success = cur.total
             /\ dest \in DOMAIN fs /\ fs[dest] = cur.fs0[cur.log[i].file]
             /\ {p \in DOMAIN fs : p[1] = output_directory /\ p \in sources \cup {dest}}
                  = {dest}

====
